---- MODULE Spec2Model ----
(***************************************************************************)
(* Model of notion_backend_service.py: the FastAPI handler upload_photo,   *)
(* which creates a Notion page, creates a file-upload object, sends the    *)
(* file bytes and attaches the upload to the page as an image block.       *)
(*                                                                         *)
(* Each request is handled by its own invocation of upload_photo.  The     *)
(* handler's position is pc[r], its live local variables are locals[r],    *)
(* the upstream calls it has issued are calls[r], the upstream response    *)
(* object it holds is reply[r] and what the client gets is response[r].    *)
(* notion is the state of the upstream service.                            *)
(***************************************************************************)
EXTENDS Integers, Sequences, FiniteSets, TLC

\* Number of requests that may be handled concurrently.
NumRequests == 2

Requests == 1..NumRequests

---------------------------------------------------------------------------
(* State.                                                                  *)

VARIABLES
    environ,    \* the environment variables of the process
    globals,    \* the module-level names bound at import (lines 70-74)
    process,    \* "starting", then "running" or "failed"
    inbox,      \* the forms clients have sent, by request
    pc,         \* where the handling of each request stands
    locals,     \* the local variables of each invocation of upload_photo
    calls,      \* the upstream calls each request has issued, in order
    reply,      \* the outcome of the latest upstream call of each request
    response,   \* what each client has been answered
    notion      \* the upstream's pages, file uploads and image blocks

vars == <<environ, globals, process, inbox, pc, locals, calls, reply, response, notion>>

---------------------------------------------------------------------------
(* Module-level configuration (lines 70-86) and notion_headers.            *)

\* Python's None, as a value no text a client or the upstream sends equals.
None == "<None>"

\* A Python dict as a function; the empty dict and None are both falsy.
EmptyDict == <<>>

EnvNames == {"NOTION_TOKEN", "NOTION_DATABASE_ID", "NOTION_VERSION"}

\* The values an environment variable may be set to.
EnvValues ==
    [NOTION_TOKEN |-> {"", "secret_token"},
     NOTION_DATABASE_ID |-> {"", "database-1"},
     NOTION_VERSION |-> {"", "2025-09-03"}]

\* Every environment: each variable unset or set to one of its values.
Environments ==
    {[n \in S |-> full[n]] :
        S \in SUBSET EnvNames,
        full \in [NOTION_TOKEN : EnvValues.NOTION_TOKEN,
                  NOTION_DATABASE_ID : EnvValues.NOTION_DATABASE_ID,
                  NOTION_VERSION : EnvValues.NOTION_VERSION]}

\* An environment with the two required variables set.
DeployedEnv ==
    [n \in {"NOTION_TOKEN", "NOTION_DATABASE_ID"} |->
        IF n = "NOTION_TOKEN" THEN "secret_token" ELSE "database-1"]

DefaultVersion == "2022-06-28"

\* os.getenv(name, default)
getenv(name, default) == IF name \in DOMAIN environ THEN environ[name] ELSE default

\* (variant: only an unset variable counts as missing)
Not_NoneOnly(v) == v = None

\* not v, for v a string or None
Not(v) == v \in {None, ""}

NOTION_TOKEN == globals.NOTION_TOKEN

DATABASE_ID == globals.DATABASE_ID

NOTION_VERSION == globals.NOTION_VERSION

\* The module body, lines 70-86: bind the three names, then raise
\* RuntimeError when the token or the database id is missing.
Startup ==
    /\ process = "starting"
    /\ globals' = [NOTION_TOKEN   |-> getenv("NOTION_TOKEN", None),
                   DATABASE_ID    |-> getenv("NOTION_DATABASE_ID", None),
                   NOTION_VERSION |-> getenv("NOTION_VERSION", DefaultVersion)]
    /\ process' = IF Not(globals'.NOTION_TOKEN) \/ Not(globals'.DATABASE_ID)
                  THEN "failed" ELSE "running"
    /\ UNCHANGED <<environ, inbox, pc, locals, calls, reply, response, notion>>

JsonContentType == [h \in {"Content-Type"} |-> "application/json"]

\* (variant: one header dict shared by all calls, which keeps what a caller
\* added to it)
notion_headers_Shared(additional) ==
    [h \in {"Authorization", "Notion-Version", "Content-Type"} |->
        IF h \in DOMAIN additional THEN additional[h]
        ELSE IF h = "Authorization" THEN "Bearer " \o NOTION_TOKEN
        ELSE IF h = "Notion-Version" THEN NOTION_VERSION
        ELSE "application/json"]

notion_headers(additional) ==
    LET headers == [h \in {"Authorization", "Notion-Version"} |->
                       IF h = "Authorization" THEN "Bearer " \o NOTION_TOKEN
                                              ELSE NOTION_VERSION]
    IN  IF DOMAIN additional # {}
        THEN [h \in DOMAIN headers \cup DOMAIN additional |->
                 IF h \in DOMAIN additional THEN additional[h] ELSE headers[h]]
        ELSE headers

---------------------------------------------------------------------------
(* The inbound multipart form and its validation against the signature of  *)
(* upload_photo (lines 105-115).                                           *)

Photo == [filename |-> "lunch.jpg", content_type |-> "image/jpeg", bytes |-> "JPEG-BYTES"]

\* A file part sent without a Content-Type of its own.
Blob == [filename |-> "scan.bin", content_type |-> None, bytes |-> "RAW-BYTES"]

\* The values a client may send for each text part of the form.
FieldValues ==
    [name    |-> {"Lunch"},
     date    |-> {"2024-05-01"},
     context |-> {"at home"},
     hunger  |-> {"3", "x"},
     energy  |-> {"7", "1.5"},
     emotion |-> {"content"}]

FieldNames == DOMAIN FieldValues

\* Form(..., ) parameters: required, no default.
RequiredFields == {"name", "date", "hunger", "energy"}

\* (variant: energy declared as text)
IntFields_HungerOnly == {"hunger"}

\* Parameters annotated int.
IntFields == {"hunger", "energy"}

\* (variant: the optional parameters default to None)
DefaultFields_None == [context |-> None, emotion |-> None]

\* Form("", ...) parameters with their default.
DefaultFields == [context |-> "", emotion |-> ""]

\* A form: the file parts sent under the key "file" (none or one) and the
\* text parts actually present.
AllForms ==
    {[file |-> fs, fields |-> [k \in P |-> full[k]]] :
        fs \in {{}, {Photo}, {Blob}},
        P \in SUBSET FieldNames,
        full \in [name : FieldValues.name, date : FieldValues.date,
                  context : FieldValues.context, hunger : FieldValues.hunger,
                  energy : FieldValues.energy, emotion : FieldValues.emotion]}

Digits == "0123456789"

IsDigit(c) == \E i \in 1..Len(Digits) : SubSeq(Digits, i, i) = c

DigitValue(c) == (CHOOSE i \in 1..Len(Digits) : SubSeq(Digits, i, i) = c) - 1

Unsigned(s) ==
    IF Len(s) > 0 /\ SubSeq(s, 1, 1) \in {"-", "+"} THEN SubSeq(s, 2, Len(s)) ELSE s

\* Whether the text of a form part is accepted for an int parameter.
IsIntString(s) ==
    /\ Len(Unsigned(s)) > 0
    /\ \A i \in 1..Len(Unsigned(s)) : IsDigit(SubSeq(Unsigned(s), i, i))

RECURSIVE DigitsToNat(_)
DigitsToNat(s) ==
    IF Len(s) = 0 THEN 0
    ELSE 10 * DigitsToNat(SubSeq(s, 1, Len(s) - 1)) + DigitValue(SubSeq(s, Len(s), Len(s)))

ParseInt(s) ==
    IF Len(s) > 0 /\ SubSeq(s, 1, 1) = "-" THEN 0 - DigitsToNat(Unsigned(s))
    ELSE DigitsToNat(Unsigned(s))

\* The errors request validation reports for a form: <<part, error type>>.
ValidationErrors(form) ==
    {<<"file", "missing">> : x \in IF form.file = {} THEN {1} ELSE {}}
    \cup {<<k, "missing">> : k \in RequiredFields \ DOMAIN form.fields}
    \cup {<<k, "int_parsing">> :
            k \in {f \in IntFields \cap DOMAIN form.fields : ~IsIntString(form.fields[f])}}

\* The value a parameter receives: the part's text, converted when the
\* parameter is annotated int; the default when the part is absent.
Coerce(form, k) ==
    IF k \notin DOMAIN form.fields THEN DefaultFields[k]
    ELSE IF k \in IntFields THEN ParseInt(form.fields[k])
    ELSE form.fields[k]

\* The arguments upload_photo is called with for a form that validates.
Arguments(form) ==
    [file    |-> CHOOSE f \in form.file : TRUE,
     name    |-> Coerce(form, "name"),
     date    |-> Coerce(form, "date"),
     context |-> Coerce(form, "context"),
     hunger  |-> Coerce(form, "hunger"),
     energy  |-> Coerce(form, "energy"),
     emotion |-> Coerce(form, "emotion")]

---------------------------------------------------------------------------
(* What the client gets.                                                   *)

NoResponse == [kind |-> "none"]

\* FastAPI's answer to a request that does not validate.
RequestValidationError(errors) ==
    [kind |-> "validation_error", status_code |-> 422, detail |-> errors]

\* raise HTTPException(status_code=..., detail=...)
HTTPException(status_code, detail) ==
    [kind |-> "http_exception", status_code |-> status_code, detail |-> detail]

\* An exception that upload_photo neither raises itself nor catches.
UnhandledException(exc) == [kind |-> "unhandled_exception", exception |-> exc]

\* return {...}
Return(body) == [kind |-> "return", body |-> body]

---------------------------------------------------------------------------
(* The upstream service, as far as the handler depends on it (module       *)
(* docstring, lines 11-25): it creates pages and file-upload objects under *)
(* identifiers of its own choosing, marks a file upload as uploaded when   *)
(* its bytes are sent, and appends image blocks to pages.                  *)

\* The identifier the upstream gives the page it creates for request r.
PageIdFor(r) == "page-" \o ToString(r)

\* The identifier the upstream gives the file upload it creates for request r.
FileUploadIdFor(r) == "upload-" \o ToString(r)

UploadUrlFor(id) == "https://api.notion.com/v1/file_uploads/" \o id \o "/send"

\* Status codes the upstream may answer with, around the borders of 2xx.
StatusCodes == {199, 200, 299, 300, 401}

\* What the upstream itself counts as success.
UpstreamOk(status_code) == status_code \in 200..299

\* A response body: its text and, when the text is JSON, the object in it.
JsonBody(text, obj) == [text |-> text, is_json |-> TRUE, obj |-> obj]

NotJsonBody(text) == [text |-> text, is_json |-> FALSE, obj |-> EmptyDict]

ErrorBodies ==
    {JsonBody("{\"message\":\"unauthorized\"}", [message |-> "unauthorized"]),
     NotJsonBody("")}

PageBodies(r) ==
    {JsonBody("{\"id\":\"" \o PageIdFor(r) \o "\"}", [id |-> PageIdFor(r)]),
     JsonBody("{}", EmptyDict),
     NotJsonBody("<html>")}

FileUploadBodies(r) ==
    LET id  == FileUploadIdFor(r)
        url == UploadUrlFor(id)
    IN  {JsonBody("{\"id\":\"" \o id \o "\",\"upload_url\":\"" \o url \o "\"}",
                  [id |-> id, upload_url |-> url]),
         JsonBody("{\"id\":\"" \o id \o "\"}", [id |-> id]),
         JsonBody("{\"upload_url\":\"" \o url \o "\"}", [upload_url |-> url]),
         NotJsonBody("<html>")}

PlainBodies == {JsonBody("{}", EmptyDict)}

OkBodies(stage, r) ==
    CASE stage = "create_page"   -> PageBodies(r)
      [] stage = "create_upload" -> FileUploadBodies(r)
      [] OTHER                   -> PlainBodies

\* A response as the requests library hands it to the handler.
Response(status_code, body) ==
    [kind |-> "response", status_code |-> status_code, text |-> body.text,
     is_json |-> body.is_json, obj |-> body.obj]

\* No response within the timeout; the upstream may or may not have acted.
Timeouts == {[kind |-> "timeout", applied |-> b] : b \in BOOLEAN}

\* Everything a call of the given stage for request r may end in.
Outcomes(stage, r) ==
    Timeouts
    \cup {Response(s, b) : s \in {c \in StatusCodes : ~UpstreamOk(c)}, b \in ErrorBodies}
    \cup {Response(s, b) : s \in {c \in StatusCodes : UpstreamOk(c)}, b \in OkBodies(stage, r)}

Applied(out) == IF out.kind = "timeout" THEN out.applied ELSE UpstreamOk(out.status_code)

BlocksUrl(page) == "https://api.notion.com/v1/blocks/" \o page \o "/children"

NotionInit == [pages |-> {}, file_uploads |-> {}, uploaded |-> {}, blocks |-> {}]

\* The upstream state after it has handled a call of request r with outcome out.
NotionAfter(n, r, call, out) ==
    IF ~Applied(out) THEN n
    ELSE CASE call.stage = "create_page" ->
                [n EXCEPT !.pages = @ \cup {PageIdFor(r)}]
           [] call.stage = "create_upload" ->
                [n EXCEPT !.file_uploads = @ \cup {FileUploadIdFor(r)}]
           [] call.stage = "send" ->
                [n EXCEPT !.uploaded = @ \cup {u \in n.file_uploads : UploadUrlFor(u) = call.url}]
           [] call.stage = "attach" ->
                [n EXCEPT !.blocks = @ \cup
                    {<<p, u>> : p \in {q \in n.pages : BlocksUrl(q) = call.url},
                                u \in {v \in n.uploaded :
                                         v = call.json.children[1].image.file_upload.id}}]

---------------------------------------------------------------------------
(* upload_photo (lines 105-273), step by step.  A frame is the handler's   *)
(* position, its local variables and what it has answered.                 *)

\* dict.get(key): None when the key is absent.
get(obj, key) == IF key \in DOMAIN obj THEN obj[key] ELSE None

\* a or b
Or(a, b) == IF a \in {None, ""} THEN b ELSE a

\* str(v), as an f-string formats it.
Str(v) == IF v = None THEN "None" ELSE v

\* (variant: only 4xx and 5xx count as failures)
IsFailure_From400(status_code) == status_code >= 400

\* status_code // 100 != 2
IsFailure(status_code) == (status_code \div 100) # 2

\* The handler ends: its locals are gone, the client gets `answer`.
End(answer) == [pc |-> "done", locals |-> EmptyDict, response |-> answer]

\* The handler goes on at `step` with the locals `l`.
Continue(step, l) == [pc |-> step, locals |-> l, response |-> NoResponse]

create_payload(l) ==
    [parent |-> [database_id |-> DATABASE_ID],
     properties |->
        [Name            |-> [title |-> <<[text |-> [content |-> l.name]]>>],
         Date            |-> [date |-> [start |-> l.date]],
         Context         |-> [rich_text |-> <<[text |-> [content |-> l.context]]>>],
         Hunger_level    |-> [number |-> l.hunger],
         Energy_level    |-> [number |-> l.energy],
         Emotional_state |-> [rich_text |-> <<[text |-> [content |-> l.emotion]]>>]]]

CreatePageCall(l) ==
    [stage |-> "create_page", method |-> "POST",
     url |-> "https://api.notion.com/v1/pages",
     headers |-> notion_headers(JsonContentType),
     json |-> create_payload(l)]

\* (variant: the status of the response is not looked at)
AfterCreatePage_Unchecked(l, out) ==
    IF out.kind = "timeout" THEN End(UnhandledException("Timeout"))
    ELSE IF ~out.is_json THEN End(UnhandledException("JSONDecodeError"))
    ELSE Continue("create_upload", [page_id |-> get(out.obj, "id")] @@ l)

AfterCreatePage(l, out) ==
    IF out.kind = "timeout" THEN End(UnhandledException("Timeout"))
    ELSE IF IsFailure(out.status_code)
    THEN End(HTTPException(out.status_code, "Failed to create Notion page: " \o out.text))
    ELSE IF ~out.is_json THEN End(UnhandledException("JSONDecodeError"))
    ELSE Continue("create_upload", [page_id |-> get(out.obj, "id")] @@ l)

\* (variant: the declared media type is passed on as it is)
upload_meta_payload_Declared(l) ==
    [file_name |-> l.file.filename, content_type |-> l.file.content_type]

upload_meta_payload(l) ==
    [file_name |-> l.file.filename,
     content_type |-> Or(l.file.content_type, "application/octet-stream")]

CreateUploadCall(l) ==
    [stage |-> "create_upload", method |-> "POST",
     url |-> "https://api.notion.com/v1/file_uploads",
     headers |-> notion_headers(JsonContentType),
     json |-> upload_meta_payload(l)]

\* (variant: a rejected call is tried again)
AfterCreateUpload_Retry(l, out) ==
    IF out.kind = "timeout" THEN End(UnhandledException("Timeout"))
    ELSE IF IsFailure(out.status_code) THEN Continue("create_upload", l)
    ELSE IF ~out.is_json THEN End(UnhandledException("JSONDecodeError"))
    ELSE IF "id" \notin DOMAIN out.obj \/ "upload_url" \notin DOMAIN out.obj
    THEN End(UnhandledException("KeyError"))
    ELSE Continue("read_file",
                  [file_upload_id |-> out.obj["id"],
                   upload_url |-> out.obj["upload_url"]] @@ l)

AfterCreateUpload(l, out) ==
    IF out.kind = "timeout" THEN End(UnhandledException("Timeout"))
    ELSE IF IsFailure(out.status_code)
    THEN End(HTTPException(out.status_code,
                           "Failed to create file upload object: " \o out.text))
    ELSE IF ~out.is_json THEN End(UnhandledException("JSONDecodeError"))
    ELSE IF "id" \notin DOMAIN out.obj \/ "upload_url" \notin DOMAIN out.obj
    THEN End(UnhandledException("KeyError"))
    ELSE Continue("read_file",
                  [file_upload_id |-> out.obj["id"],
                   upload_url |-> out.obj["upload_url"]] @@ l)

\* (variant: the read of the file never completes)
AfterReadFile_Pending(l) == Continue("read_file", l)

\* file_bytes = await file.read()
AfterReadFile(l) == Continue("send", [file_bytes |-> l.file.bytes] @@ l)

SendCall(l) ==
    [stage |-> "send", method |-> "POST",
     url |-> l.upload_url,
     headers |-> notion_headers(EmptyDict),
     files |-> [file |-> <<l.file.filename, l.file_bytes,
                           Or(l.file.content_type, "application/octet-stream")>>]]

\* (variant: the status of the response is not looked at)
AfterSend_Unchecked(l, out) ==
    IF out.kind = "timeout" THEN End(UnhandledException("Timeout"))
    ELSE Continue("attach", l)

AfterSend(l, out) ==
    IF out.kind = "timeout" THEN End(UnhandledException("Timeout"))
    ELSE IF IsFailure(out.status_code)
    THEN End(HTTPException(out.status_code, "Failed to upload file contents: " \o out.text))
    ELSE Continue("attach", l)

attach_payload(l) ==
    [children |->
        <<[object |-> "block", type |-> "image",
           image |-> [type |-> "file_upload",
                      file_upload |-> [id |-> l.file_upload_id]]]>>]

AttachCall(l) ==
    [stage |-> "attach", method |-> "PATCH",
     url |-> "https://api.notion.com/v1/blocks/" \o Str(l.page_id) \o "/children",
     headers |-> notion_headers(JsonContentType),
     json |-> attach_payload(l)]

\* (variant: the status of the response is not looked at)
AfterAttach_Unchecked(l, out) ==
    IF out.kind = "timeout" THEN End(UnhandledException("Timeout"))
    ELSE End(Return([page_id |-> l.page_id]))

\* (variant: the identifier of the file upload is returned)
AfterAttach_ReturnsUpload(l, out) ==
    IF out.kind = "timeout" THEN End(UnhandledException("Timeout"))
    ELSE IF IsFailure(out.status_code)
    THEN End(HTTPException(out.status_code, "Failed to attach file to page: " \o out.text))
    ELSE End(Return([page_id |-> l.file_upload_id]))

AfterAttach(l, out) ==
    IF out.kind = "timeout" THEN End(UnhandledException("Timeout"))
    ELSE IF IsFailure(out.status_code)
    THEN End(HTTPException(out.status_code, "Failed to attach file to page: " \o out.text))
    ELSE End(Return([page_id |-> l.page_id]))

---------------------------------------------------------------------------
(* Initial states and the steps of a request.                              *)

NoReply == [kind |-> "none"]

\* A form with every field, and one whose hunger is not an integer.
LunchForm ==
    [file |-> {Photo},
     fields |-> [name |-> "Lunch", date |-> "2024-05-01", context |-> "at home",
                 hunger |-> "3", energy |-> "7", emotion |-> "content"]]

BadForm == [LunchForm EXCEPT !.fields.hunger = "x"]

InitHandlers ==
    /\ globals = EmptyDict
    /\ process = "starting"
    /\ pc = [r \in Requests |-> "pending"]
    /\ locals = [r \in Requests |-> EmptyDict]
    /\ calls = [r \in Requests |-> <<>>]
    /\ reply = [r \in Requests |-> NoReply]
    /\ response = [r \in Requests |-> NoResponse]
    /\ notion = NotionInit

\* Every request slot holds a request in flight.
Init ==
    /\ environ = DeployedEnv
    /\ inbox \in [Requests -> {LunchForm, BadForm}]
    /\ InitHandlers

\* One request in flight, with any form a client can build.
InitOne ==
    /\ environ = DeployedEnv
    /\ inbox \in [{1} -> AllForms]
    /\ InitHandlers

\* The process starts in any environment, with one request in flight.
InitAnyEnv ==
    /\ environ \in Environments
    /\ inbox \in [{1} -> {LunchForm}]
    /\ InitHandlers

\* (variant: page_id is kept in a module-level variable that another
\* invocation has overwritten)
Frame_SharedPageId(r) ==
    LET others == {q \in Requests \ {r} : "page_id" \in DOMAIN locals[q]}
    IN  IF "page_id" \in DOMAIN locals[r] /\ others # {}
        THEN [locals[r] EXCEPT !.page_id = locals[CHOOSE q \in others : TRUE].page_id]
        ELSE locals[r]

\* The local variables of the invocation handling request r.
Frame(r) == locals[r]

Goto(r, next) ==
    /\ pc' = [pc EXCEPT ![r] = next.pc]
    /\ locals' = [locals EXCEPT ![r] = next.locals]
    /\ response' = [response EXCEPT ![r] = next.response]

\* Request r issues `call`, which ends in `out`.
Issue(r, call, out) ==
    /\ calls' = [calls EXCEPT ![r] = Append(@, call)]
    /\ reply' = [reply EXCEPT ![r] = out]
    /\ notion' = NotionAfter(notion, r, call, out)

\* The framework validates the form and, if it is valid, calls upload_photo.
Receive(r) ==
    /\ process = "running"
    /\ pc[r] = "pending"
    /\ IF ValidationErrors(inbox[r]) # {}
       THEN Goto(r, End(RequestValidationError(ValidationErrors(inbox[r]))))
       ELSE Goto(r, Continue("create_page", Arguments(inbox[r])))
    /\ UNCHANGED <<environ, globals, process, inbox, calls, reply, notion>>

CreatePage(r) ==
    /\ pc[r] = "create_page"
    /\ \E out \in Outcomes("create_page", r) :
          /\ Issue(r, CreatePageCall(Frame(r)), out)
          /\ Goto(r, AfterCreatePage(Frame(r), out))
    /\ UNCHANGED <<environ, globals, process, inbox>>

CreateUpload(r) ==
    /\ pc[r] = "create_upload"
    /\ \E out \in Outcomes("create_upload", r) :
          /\ Issue(r, CreateUploadCall(Frame(r)), out)
          /\ Goto(r, AfterCreateUpload(Frame(r), out))
    /\ UNCHANGED <<environ, globals, process, inbox>>

ReadFile(r) ==
    /\ pc[r] = "read_file"
    /\ Goto(r, AfterReadFile(Frame(r)))
    /\ UNCHANGED <<environ, globals, process, inbox, calls, reply, notion>>

Send(r) ==
    /\ pc[r] = "send"
    /\ \E out \in Outcomes("send", r) :
          /\ Issue(r, SendCall(Frame(r)), out)
          /\ Goto(r, AfterSend(Frame(r), out))
    /\ UNCHANGED <<environ, globals, process, inbox>>

Attach(r) ==
    /\ pc[r] = "attach"
    /\ \E out \in Outcomes("attach", r) :
          /\ Issue(r, AttachCall(Frame(r)), out)
          /\ Goto(r, AfterAttach(Frame(r), out))
    /\ UNCHANGED <<environ, globals, process, inbox>>

Next ==
    \/ Startup
    \/ \E r \in DOMAIN inbox : Receive(r)
    \/ \E r \in DOMAIN inbox : CreatePage(r)
    \/ \E r \in DOMAIN inbox : CreateUpload(r)
    \/ \E r \in DOMAIN inbox : ReadFile(r)
    \/ \E r \in DOMAIN inbox : Send(r)
    \/ \E r \in DOMAIN inbox : Attach(r)

Spec == Init /\ [][Next]_vars

SpecOne == InitOne /\ [][Next]_vars

SpecAnyEnv == InitAnyEnv /\ [][Next]_vars

\* Every upstream call is made with a timeout (15 s, 30 s for the binary) and
\* so ends in a response or in a Timeout, and the event loop resumes the
\* handler after each of them and after the read of the file: a step of a
\* request that stays possible is eventually taken.
Fairness ==
    \A r \in Requests :
        /\ WF_vars(CreatePage(r))
        /\ WF_vars(CreateUpload(r))
        /\ WF_vars(ReadFile(r))
        /\ WF_vars(Send(r))
        /\ WF_vars(Attach(r))

FairSpecOne == InitOne /\ [][Next]_vars /\ Fairness

---------------------------------------------------------------------------
(* Vocabulary of the properties.                                           *)

Stages == <<"create_page", "create_upload", "send", "attach">>

\* The stages of the calls request r has issued, in order.
StagesOf(r) == [i \in 1..Len(calls[r]) |-> calls[r][i].stage]

\* The latest call of request r is of `stage` and the upstream answered it.
AnsweredAt(r, stage) ==
    /\ calls[r] # <<>>
    /\ calls[r][Len(calls[r])].stage = stage
    /\ reply[r].kind = "response"

\* ... and it answered with a status outside 200..299.
RejectedAt(r, stage) ==
    /\ AnsweredAt(r, stage)
    /\ reply[r].status_code \notin 200..299

\* The latest call of request r is of `stage` and got no response in time.
TimedOutAt(r, stage) ==
    /\ calls[r] # <<>>
    /\ calls[r][Len(calls[r])].stage = stage
    /\ reply[r].kind = "timeout"

\* The handling of request r has ended and will not go on.
Ended(r) == pc[r] = "done" /\ locals[r] = EmptyDict

\* Request r issues no further call and its answer stays as it is.
Quiet(r) == calls'[r] = calls[r] /\ response'[r] = response[r] /\ pc'[r] = pc[r]

---------------------------------------------------------------------------
\* C1: if the record-creation call returns a non-2xx status, the request
\* ends there: the record-creation call is the only upstream call it ever
\* issues, and the error returned to the client carries the status code of
\* the record-creation response.
C1_CreateFailureStopsAll ==
    /\ [](\A r \in Requests :
            RejectedAt(r, "create_page") =>
                /\ Ended(r)
                /\ StagesOf(r) = <<"create_page">>
                /\ response[r].kind = "http_exception"
                /\ response[r].status_code = reply[r].status_code)
    /\ [][\A r \in Requests : RejectedAt(r, "create_page") => Quiet(r)]_vars

C1_Witness ==
    \E r \in Requests :
        /\ RejectedAt(r, "create_page")
        /\ reply[r].status_code = 401
        /\ response[r].kind = "http_exception"

\* C2: if the upload-slot call returns a non-2xx status, the request ends
\* there with exactly the record-creation and slot-creation calls issued
\* (no binary send, no attach, no compensating call), and the page created
\* in step 1 exists upstream then and afterwards.
C2_UploadFailureKeepsPage ==
    /\ [](\A r \in Requests :
            RejectedAt(r, "create_upload") =>
                /\ Ended(r)
                /\ StagesOf(r) = <<"create_page", "create_upload">>
                /\ \A i \in 1..Len(calls[r]) : calls[r][i].method = "POST"
                /\ PageIdFor(r) \in notion.pages)
    /\ [][\A r \in Requests :
            RejectedAt(r, "create_upload") =>
                Quiet(r) /\ PageIdFor(r) \in notion'.pages]_vars

C2_Witness ==
    \E r \in Requests :
        /\ RejectedAt(r, "create_upload")
        /\ PageIdFor(r) \in notion.pages
        /\ Ended(r)

\* C3: if the binary-send call returns a non-2xx status, the request ends
\* there and no attach call is ever issued for it.
C3_SendFailureNoAttach ==
    /\ [](\A r \in Requests :
            RejectedAt(r, "send") =>
                /\ Ended(r)
                /\ StagesOf(r) = <<"create_page", "create_upload", "send">>)
    /\ [][\A r \in Requests : RejectedAt(r, "send") => Quiet(r)]_vars

C3_Witness ==
    \E r \in Requests : RejectedAt(r, "send") /\ Ended(r)

\* C4 as stated: a successful run answers with a JSON object whose only
\* field is record_id, a non-empty string.
C4_RecordIdField ==
    \A r \in Requests :
        response[r].kind = "return" =>
            /\ DOMAIN response[r].body = {"record_id"}
            /\ response[r].body.record_id \notin {None, ""}

\* C4 as amended: a successful run answers with a JSON object whose only
\* field is page_id; its value is what the handler took from the id field
\* of the record-creation response (null when that response has none), the
\* same value the attach call addressed.
C4_PageIdField ==
    /\ [](\A r \in Requests :
            /\ response[r].kind = "return" =>
                  /\ DOMAIN response[r].body = {"page_id"}
                  /\ response[r].body.page_id \in {PageIdFor(r), None}
                  /\ calls[r][Len(calls[r])].url = BlocksUrl(Str(response[r].body.page_id))
            /\ pc[r] = "create_upload" =>
                  locals[r].page_id = get(reply[r].obj, "id"))
    /\ [][\A r \in Requests :
            "page_id" \in DOMAIN locals[r] =>
                /\ pc'[r] # "done" => locals'[r].page_id = locals[r].page_id
                /\ response'[r].kind = "return" =>
                      response'[r].body.page_id = locals[r].page_id]_vars

C4_Witness ==
    \E r \in Requests :
        /\ response[r].kind = "return"
        /\ response[r].body.page_id = PageIdFor(r)

\* The description that precedes the upstream body in an error detail.
Description(r) ==
    SubSeq(response[r].detail, 1, Len(response[r].detail) - Len(reply[r].text))

EndsWith(s, t) == Len(t) <= Len(s) /\ SubSeq(s, Len(s) - Len(t) + 1, Len(s)) = t

LastStage(r) == calls[r][Len(calls[r])].stage

\* C5: a call that got a response is treated as failed exactly when its
\* status is outside 200..299; the error then carries that status, and its
\* detail is a description followed by the upstream body verbatim, the
\* description being different for different stages.
C5_FailureMirrorsUpstream ==
    /\ \A r \in Requests :
          reply[r].kind = "response" =>
              /\ response[r].kind = "http_exception" <=> reply[r].status_code \notin 200..299
              /\ response[r].kind = "http_exception" =>
                    /\ Ended(r)
                    /\ response[r].status_code = reply[r].status_code
                    /\ EndsWith(response[r].detail, reply[r].text)
                    /\ Description(r) # ""
    /\ \A r, q \in Requests :
          response[r].kind = "http_exception" /\ response[q].kind = "http_exception" =>
              (Description(r) = Description(q) <=> LastStage(r) = LastStage(q))

C5_Witness ==
    \E r, q \in Requests :
        /\ RejectedAt(r, "attach") /\ reply[r].status_code = 300
        /\ RejectedAt(q, "send") /\ reply[q].status_code = 199
        /\ reply[q].text # ""
        /\ response[r].kind = "http_exception" /\ response[q].kind = "http_exception"

\* C6 as stated: a call that times out ends the request like a rejected
\* call does: the request has ended, the timed-out call is its last one,
\* and the client gets the error that names the stage.
C6_TimeoutLikeRejection ==
    \A r \in Requests : \A i \in 1..Len(Stages) :
        TimedOutAt(r, Stages[i]) =>
            /\ Ended(r)
            /\ StagesOf(r) = SubSeq(Stages, 1, i)
            /\ response[r].kind = "http_exception"

\* The terminal states of the state machine.
Attached(r) == response[r].kind = "return" /\ StagesOf(r) = Stages

Failed(r) ==
    /\ response[r].kind = "http_exception"
    /\ reply[r].kind = "response"
    /\ response[r].status_code = reply[r].status_code
    /\ EndsWith(response[r].detail, reply[r].text)

\* C7 as stated, for the runs in which every call got a JSON response: the
\* calls are issued in the order of the stages, each at most once, and a
\* request that has ended after calling upstream is Attached or Failed.
C7_OnlyAttachedOrFailed ==
    \A r \in Requests :
        /\ StagesOf(r) = SubSeq(Stages, 1, Len(calls[r]))
        /\ (Ended(r) /\ calls[r] # <<>> /\ reply[r].kind = "response" /\ reply[r].is_json) =>
              (Attached(r) \/ Failed(r))

\* C8: the client gets a success response only after all four calls were
\* issued in order and every one returned 2xx (the handler never goes past
\* a call whose response is not 2xx); every other ended request has got an
\* error, which carries no body with a record identifier.
C8_SuccessOnlyAfterAllFour ==
    \A r \in Requests :
        /\ StagesOf(r) = SubSeq(Stages, 1, Len(calls[r]))
        /\ response[r].kind = "return" =>
              /\ StagesOf(r) = Stages
              /\ reply[r].kind = "response" /\ reply[r].status_code \in 200..299
        /\ (calls[r] # <<>> /\ pc[r] # "done") =>
              reply[r].kind = "response" /\ reply[r].status_code \in 200..299
        /\ (pc[r] = "done" /\ response[r].kind # "return") =>
              /\ response[r].kind \in {"validation_error", "http_exception",
                                       "unhandled_exception"}
              /\ "body" \notin DOMAIN response[r]

C8_Witness ==
    \E r, q \in Requests :
        /\ response[r].kind = "return" /\ StagesOf(r) = Stages
        /\ response[q].kind = "http_exception" /\ Len(calls[q]) = 3

\* C9: whatever the interleaving, the binary-send call of a request goes
\* to the upload URL its own slot-creation call returned, and its attach
\* call addresses the page its own record-creation call returned and names
\* the file upload its own slot-creation call returned.
C9_OwnDataOnly ==
    \A r \in Requests :
        /\ pc[r] = "create_upload" => locals[r].page_id = get(reply[r].obj, "id")
        /\ pc[r] = "read_file" =>
              /\ locals[r].file_upload_id = reply[r].obj.id
              /\ locals[r].upload_url = reply[r].obj.upload_url
        /\ \A i \in 1..Len(calls[r]) :
              /\ calls[r][i].stage = "send" =>
                    calls[r][i].url = UploadUrlFor(FileUploadIdFor(r))
              /\ calls[r][i].stage = "attach" =>
                    /\ calls[r][i].url \in {BlocksUrl(PageIdFor(r)), BlocksUrl("None")}
                    /\ calls[r][i].json.children[1].image.file_upload.id = FileUploadIdFor(r)

\* Two requests are past record creation at once, and one has attached.
C9_Witness ==
    \E r, q \in Requests :
        /\ r # q
        /\ Len(calls[r]) = 4 /\ calls[r][4].url = BlocksUrl(PageIdFor(r))
        /\ pc[q] = "attach" /\ locals[q].page_id = PageIdFor(q)

\* The texts that are integers, for the claim's sake.
IntegerTexts == {ToString(n) : n \in -9..9}

\* A form that lacks a required part or whose hunger or energy is no integer.
Malformed(form) ==
    \/ form.file = {}
    \/ \E k \in {"name", "date", "hunger", "energy"} : k \notin DOMAIN form.fields
    \/ \E k \in {"hunger", "energy"} \cap DOMAIN form.fields :
          form.fields[k] \notin IntegerTexts

\* C10: a request that lacks a required part or whose hunger or energy is
\* not an integer is answered with a 4xx error without any upstream call.
C10_MalformedRejectedBeforeCalls ==
    \A r \in DOMAIN inbox :
        (pc[r] # "pending" /\ Malformed(inbox[r])) =>
            /\ Ended(r)
            /\ response[r].kind = "validation_error"
            /\ response[r].status_code \in 400..499
            /\ calls[r] = <<>>
            /\ notion = NotionInit

C10_Witness ==
    \E r \in DOMAIN inbox :
        /\ pc[r] = "done"
        /\ "energy" \in DOMAIN inbox[r].fields /\ inbox[r].fields.energy = "1.5"
        /\ inbox[r].file # {} /\ DOMAIN inbox[r].fields = FieldNames
        /\ inbox[r].fields.hunger = "3"
        /\ response[r].kind = "validation_error"

\* The text content of a rich_text or title property of a payload.
ContentOf(texts) == texts[1].text.content

\* C11: the record-creation payload holds exactly the six properties; Name,
\* Date, Context and Emotional_state carry the texts the client sent and
\* the two levels the integers it sent; Context and Emotional_state are
\* present with the empty string as content when the client omitted them.
C11_PayloadMapsFields ==
    \A r \in DOMAIN inbox :
        calls[r] # <<>> =>
            LET p == calls[r][1].json.properties
                f == inbox[r].fields
            IN  /\ calls[r][1].stage = "create_page"
                /\ DOMAIN p = {"Name", "Date", "Context", "Hunger_level",
                               "Energy_level", "Emotional_state"}
                /\ Len(p.Name.title) = 1 /\ ContentOf(p.Name.title) = f.name
                /\ p.Date.date.start = f.date
                /\ ToString(p.Hunger_level.number) = f.hunger
                /\ ToString(p.Energy_level.number) = f.energy
                /\ Len(p.Context.rich_text) = 1
                /\ ContentOf(p.Context.rich_text) =
                      (IF "context" \in DOMAIN f THEN f.context ELSE "")
                /\ Len(p.Emotional_state.rich_text) = 1
                /\ ContentOf(p.Emotional_state.rich_text) =
                      (IF "emotion" \in DOMAIN f THEN f.emotion ELSE "")

C11_Witness ==
    \E r \in DOMAIN inbox :
        /\ calls[r] # <<>>
        /\ "context" \notin DOMAIN inbox[r].fields
        /\ "emotion" \notin DOMAIN inbox[r].fields
        /\ ContentOf(calls[r][1].json.properties.Context.rich_text) = ""

\* An environment variable is unset or set to the empty string.
EnvMissing(name) == name \notin DOMAIN environ \/ environ[name] = ""

\* No request has been handled and the upstream has not been called.
NothingHandled ==
    /\ \A r \in Requests :
          pc[r] = "pending" /\ calls[r] = <<>> /\ response[r] = NoResponse
    /\ notion = NotionInit

\* The process does not start without a token or a database id.
RefusesWithoutCredentials ==
    (EnvMissing("NOTION_TOKEN") \/ EnvMissing("NOTION_DATABASE_ID")) =>
        process # "running" /\ NothingHandled

\* A missing version alone does not make the start fail.
StartsWithCredentials ==
    (~EnvMissing("NOTION_TOKEN") /\ ~EnvMissing("NOTION_DATABASE_ID")) =>
        process # "failed"

\* Every call carries the token and version of the environment the process
\* started in, and the record-creation payload its database id.
CallsCarryConfiguration ==
    \A r \in Requests : \A i \in 1..Len(calls[r]) :
        /\ calls[r][i].headers["Authorization"] = "Bearer " \o environ["NOTION_TOKEN"]
        /\ calls[r][i].headers["Notion-Version"] = getenv("NOTION_VERSION", "2022-06-28")
        /\ calls[r][i].stage = "create_page" =>
              calls[r][i].json.parent.database_id = environ["NOTION_DATABASE_ID"]

\* C12 as stated: without a token or database id (unset or empty) the
\* process does not start and nothing is handled; a missing (unset or
\* empty) version alone does not prevent the start and the default version
\* is used.
C12_MissingVersionUsesDefault ==
    /\ RefusesWithoutCredentials
    /\ StartsWithCredentials
    /\ (process = "running" /\ EnvMissing("NOTION_VERSION")) =>
          globals.NOTION_VERSION = "2022-06-28"

\* C12 as amended: as above, but the default version is used when the
\* version is unset, and a version set to the empty string is used as it
\* is; once the module body has run the configuration never changes, and
\* every call carries it.
C12_StartupConfiguration ==
    /\ [](/\ RefusesWithoutCredentials
          /\ StartsWithCredentials
          /\ process = "running" =>
                /\ globals.NOTION_TOKEN = environ["NOTION_TOKEN"]
                /\ globals.DATABASE_ID = environ["NOTION_DATABASE_ID"]
                /\ globals.NOTION_VERSION =
                      (IF "NOTION_VERSION" \in DOMAIN environ
                       THEN environ["NOTION_VERSION"] ELSE "2022-06-28")
          /\ CallsCarryConfiguration)
    /\ [][process # "starting" =>
            globals' = globals /\ process' = process /\ environ' = environ]_vars

\* The token is set but empty, and the process has refused to start.
C12_Witness ==
    /\ "NOTION_TOKEN" \in DOMAIN environ /\ environ["NOTION_TOKEN"] = ""
    /\ ~EnvMissing("NOTION_DATABASE_ID")
    /\ process = "failed"

\* Request r has ended in an error after k upstream calls: it failed at
\* stage k.
FailedAtStage(r, k) ==
    /\ Ended(r)
    /\ Len(calls[r]) = k
    /\ response[r].kind \in {"http_exception", "unhandled_exception"}

PageRemains(r) == PageIdFor(r) \in notion.pages

SlotRemains(r) == FileUploadIdFor(r) \in notion.file_uploads

HasImageBlock(r) == \E b \in notion.blocks : b[1] = PageIdFor(r)

Accepted(r) == pc[r] \in {"create_page", "create_upload", "read_file", "send", "attach"}

\* Request r has got its answer: the success response or an error response.
Terminal(r) == Ended(r) /\ response[r].kind # "none"

\* C14: every accepted request eventually reaches a terminal state, given
\* that every upstream call ends in a response or a timeout; the handler
\* issues each of the four calls at most once and in order (no loop, no
\* retry), and once the answer is produced nothing more happens for the
\* request.
C14_AcceptedEventuallyTerminal ==
    /\ \A r \in Requests : Accepted(r) ~> Terminal(r)
    /\ [](\A r \in Requests :
            /\ Len(calls[r]) <= Len(Stages)
            /\ StagesOf(r) = SubSeq(Stages, 1, Len(calls[r])))
    /\ [][\A r \in Requests : Terminal(r) => Quiet(r)]_vars

\* A request has gone through its four calls, the last of which timed out,
\* and has got its error response.
C14_Witness ==
    \E r \in Requests :
        /\ Terminal(r)
        /\ StagesOf(r) = Stages
        /\ TimedOutAt(r, "attach")

\* The file part of request r, as the client sent it.
FilePart(r) == CHOOSE f \in inbox[r].file : TRUE

\* The media type both calls must declare for file part f.
DeclaredType(f) ==
    IF f.content_type = None THEN "application/octet-stream" ELSE f.content_type

\* The binary of request r has been read into the handler's memory.
HasRead(r) == "file_bytes" \in DOMAIN locals[r]

\* C15: the slot-creation call and the binary-send call of a request declare
\* the filename of the file part and the same media type, the declared one
\* or application/octet-stream when none was declared, and the send call
\* carries the whole binary; the binary is read in one step that comes after
\* a successful slot creation and before the send call, so that a request
\* that is at step 1 or 2, or fails there, has not read it.
C15_SameFileDeclaredAndReadLate ==
    /\ [](\A r \in DOMAIN inbox : \A i \in 1..Len(calls[r]) :
            /\ calls[r][i].stage = "create_upload" =>
                   /\ calls[r][i].json.file_name = FilePart(r).filename
                   /\ calls[r][i].json.content_type = DeclaredType(FilePart(r))
            /\ calls[r][i].stage = "send" =>
                   /\ calls[r][i].files.file =
                          <<FilePart(r).filename, FilePart(r).bytes,
                            DeclaredType(FilePart(r))>>
                   /\ i > 1 /\ calls[r][i - 1].stage = "create_upload"
                   /\ calls[r][i - 1].json.file_name = calls[r][i].files.file[1]
                   /\ calls[r][i - 1].json.content_type = calls[r][i].files.file[3])
    /\ [](\A r \in Requests :
            /\ HasRead(r) => pc[r] \in {"send", "attach"}
            /\ pc[r] = "send" => HasRead(r) /\ Len(calls[r]) = 2
            /\ pc[r] = "read_file" =>
                   AnsweredAt(r, "create_upload") /\ ~RejectedAt(r, "create_upload"))
    /\ [][\A r \in Requests :
            /\ (~HasRead(r) /\ HasRead(r)') =>
                   /\ pc[r] = "read_file" /\ pc'[r] = "send"
                   /\ locals'[r].file_bytes = FilePart(r).bytes
                   /\ calls'[r] = calls[r]
            /\ (pc[r] \in {"create_page", "create_upload"} /\ pc'[r] = "done") =>
                   ~HasRead(r) /\ ~HasRead(r)']_vars

\* A request whose file part declares no media type has sent its binary.
C15_Witness ==
    \E r \in DOMAIN inbox :
        /\ inbox[r].file = {Blob}
        /\ Len(calls[r]) >= 3
        /\ calls[r][3].stage = "send"
        /\ calls[r][3].files.file[3] = "application/octet-stream"

JsonStages == {"create_page", "create_upload", "attach"}

\* C16: every upstream call carries the bearer token and the API version of
\* the configuration; the calls of the three JSON stages carry in addition
\* Content-Type: application/json and nothing else, and the binary-send call
\* carries the two headers alone, whatever calls this or another request
\* has issued before it.
C16_HeadersPerCall ==
    \A r \in Requests : \A i \in 1..Len(calls[r]) :
        LET call == calls[r][i] IN
        /\ {"Authorization", "Notion-Version"} \subseteq DOMAIN call.headers
        /\ call.headers["Authorization"] = "Bearer " \o environ["NOTION_TOKEN"]
        /\ call.headers["Notion-Version"] = DefaultVersion
        /\ call.stage \in JsonStages =>
               /\ DOMAIN call.headers = {"Authorization", "Notion-Version", "Content-Type"}
               /\ call.headers["Content-Type"] = "application/json"
        /\ call.stage = "send" =>
               DOMAIN call.headers = {"Authorization", "Notion-Version"}

\* A request has issued its binary-send call, after two JSON calls of its
\* own, while another request has issued JSON calls too.
C16_Witness ==
    \E r, q \in Requests :
        /\ r # q
        /\ Len(calls[r]) >= 3 /\ calls[r][3].stage = "send"
        /\ "Content-Type" \in DOMAIN calls[r][2].headers
        /\ calls[q] # <<>> /\ "Content-Type" \in DOMAIN calls[q][1].headers

====
